---- MODULE Spec2Model ----
\* A model of api2go's per-resource verb dispatcher (api.go): the pagination
\* link planner, the verb handlers with the backend calls they make, the
\* selection of the content marshaler, and the error responder writing to the
\* http.ResponseWriter.
EXTENDS Integers, Sequences, FiniteSets, TLC

VARIABLES
    pc,         \* dispatcher: "idle" (waiting for a request) or "done" (request served)
    verb,       \* the route that served the request
    request,    \* the request: page parameters and parsed body shape
    calls,      \* the backend calls of this request, in order, with what they returned
    w,          \* the http.ResponseWriter of this request
    err,        \* the error the verb handler returned
    panicked,   \* the handler goroutine panicked (net/http aborts the response)
    responded,  \* the backend response handed to respondWith / respondWithPagination
    effects,    \* what the handler did to the request body, the object and the query
    resources,  \* api.resources: the registered resources, in registration order
    strict,     \* the build's net/http panics on WriteHeader codes outside 100..999
    lpc,        \* link planner: "idle" or "done"
    lin,        \* link planner input: page parameters and count
    lout,       \* link planner output: getLinks' result
    cpc,        \* codec selection: "idle" or "done"
    cin,        \* codec selection input: the request headers and the marshalers map
    cout,       \* codec selection output: the selections made for the request, in order
    inflight,   \* the linked-resource requests the server's goroutines are serving
    mpc,        \* marshaler: "idle" or "done"
    node,       \* marshaler input: the Node handed to Marshal
    marshaled   \* marshaler output: the resource object of the document

vars ==
    <<pc, verb, request, calls, w, err, panicked, responded, effects, resources, strict,
      lpc, lin, lout, cpc, cin, cout, inflight, mpc, node, marshaled>>

dispatchVars == <<pc, verb, request, calls, w, err, panicked, responded, effects, resources, strict>>

linkVars == <<lpc, lin, lout>>

codecVars == <<cpc, cin, cout>>

servingVars == <<inflight>>

marshalVars == <<mpc, node, marshaled>>

\* the dispatcher's variables of one request, without the registry
requestVars == <<pc, verb, request, calls, w, err, panicked, responded, effects, strict>>

\* ---------------------------------------------------------------- bounds

\* width of the unsigned integers of getLinks (uint64 in the source), reduced
UintBits == 4

\* largest element count a backend reports to the link planner
MaxCount == 7

\* longest page parameter text given to the link planner
MaxParamLen == 2

\* longest linkage array in a relationship payload
MaxEntries == 2

\* most media ranges in an Accept header
MaxSpecs == 2

\* goroutines serving requests at the same time
MaxGoroutines == 2

\* the most ids a to-many relationship of a marshaled Node holds
MaxRefs == 2

\* ---------------------------------------------------------------- text and numbers

RECURSIVE Pow2(_)
Pow2(n) == IF n = 0 THEN 1 ELSE 2 * Pow2(n - 1)

UintMod == Pow2(UintBits)

Wrap(n) == n % UintMod

Digits == <<"0", "1", "2", "3", "4", "5", "6", "7", "8", "9">>

DigitChars == {Digits[i] : i \in 1..10}

DigitVal(c) == (CHOOSE i \in 1..10 : Digits[i] = c) - 1

RECURSIVE DecimalValue(_)
DecimalValue(s) ==
    IF s = <<>> THEN 0
    ELSE 10 * DecimalValue(SubSeq(s, 1, Len(s) - 1)) + DigitVal(s[Len(s)])

\* strconv.ParseUint(s, 10, 64): a syntax error on the empty text and on any
\* character that is no decimal digit, a range error on a value that does not fit
ParseUint(s) ==
    IF s = <<>> \/ \E i \in 1..Len(s) : s[i] \notin DigitChars
    THEN [ok |-> FALSE, val |-> 0]
    ELSE IF DecimalValue(s) >= UintMod
         THEN [ok |-> FALSE, val |-> UintMod - 1]
         ELSE [ok |-> TRUE, val |-> DecimalValue(s)]

RECURSIVE FormatUint(_)
FormatUint(n) ==
    IF n < 10 THEN <<Digits[n + 1]>>
    ELSE Append(FormatUint(n \div 10), Digits[(n % 10) + 1])

\* ---------------------------------------------------------------- pagination

EmptyText == <<>>

paginationQueryParams(number, size, offset, limit) ==
    [number |-> number, size |-> size, offset |-> offset, limit |-> limit]

\* isValid with the test of the second strategy's parameters left out of the
\* first strategy's condition
isValid_numberSizeOnly(p) ==
    IF p.number = EmptyText /\ p.size = EmptyText /\ p.offset = EmptyText /\ p.limit = EmptyText
    THEN FALSE
    ELSE IF p.number # EmptyText /\ p.size # EmptyText
         THEN TRUE
         ELSE IF p.number = EmptyText /\ p.size = EmptyText /\ p.offset # EmptyText /\ p.limit # EmptyText
              THEN TRUE
              ELSE FALSE

isValid(p) ==
    IF p.number = EmptyText /\ p.size = EmptyText /\ p.offset = EmptyText /\ p.limit = EmptyText
    THEN FALSE
    ELSE IF p.number # EmptyText /\ p.size # EmptyText /\ p.offset = EmptyText /\ p.limit = EmptyText
         THEN TRUE
         ELSE IF p.number = EmptyText /\ p.size = EmptyText /\ p.offset # EmptyText /\ p.limit # EmptyText
              THEN TRUE
              ELSE FALSE

\* one entry of getLinks' result map: absent, or the request's page parameters
\* with the one parameter rewritten by params.Set
NoLink == [present |-> FALSE, query |-> paginationQueryParams(EmptyText, EmptyText, EmptyText, EmptyText)]

Link(q) == [present |-> TRUE, query |-> q]

NoLinks == [first |-> NoLink, prev |-> NoLink, next |-> NoLink, last |-> NoLink]

LinksResult(result, failed, aborted) == [result |-> result, err |-> failed, panic |-> aborted]

\* the branch of getLinks for page[number] and page[size] with ParseUint's
\* error on page[size] dropped: the links known so far are returned
getLinksNumberSize_sizeErrorDropped(p, count) ==
    LET number == ParseUint(p.number)
        size == ParseUint(p.size)
        r1 == IF p.number # <<"1">>
              THEN [NoLinks EXCEPT !.first = Link([p EXCEPT !.number = <<"1">>]),
                                   !.prev = Link([p EXCEPT !.number = FormatUint(Wrap(number.val - 1))])]
              ELSE NoLinks
        div == count \div size.val
        totalPages == IF count % size.val # 0 THEN Wrap(div + 1) ELSE div
        r2 == IF number.val # totalPages
              THEN [r1 EXCEPT !.next = Link([p EXCEPT !.number = FormatUint(Wrap(number.val + 1))]),
                              !.last = Link([p EXCEPT !.number = FormatUint(totalPages)])]
              ELSE r1
    IN  IF ~number.ok THEN LinksResult(NoLinks, TRUE, FALSE)
        ELSE IF ~size.ok THEN LinksResult(r1, FALSE, FALSE)
        ELSE IF size.val = 0 THEN LinksResult(r1, FALSE, TRUE)
        ELSE LinksResult(r2, FALSE, FALSE)

\* the branch of getLinks for page[number] and page[size]
getLinksNumberSize(p, count) ==
    LET number == ParseUint(p.number)
        size == ParseUint(p.size)
        r1 == IF p.number # <<"1">>
              THEN [NoLinks EXCEPT !.first = Link([p EXCEPT !.number = <<"1">>]),
                                   !.prev = Link([p EXCEPT !.number = FormatUint(Wrap(number.val - 1))])]
              ELSE NoLinks
        div == count \div size.val
        totalPages == IF count % size.val # 0 THEN Wrap(div + 1) ELSE div
        r2 == IF number.val # totalPages
              THEN [r1 EXCEPT !.next = Link([p EXCEPT !.number = FormatUint(Wrap(number.val + 1))]),
                              !.last = Link([p EXCEPT !.number = FormatUint(totalPages)])]
              ELSE r1
    IN  IF ~number.ok THEN LinksResult(NoLinks, TRUE, FALSE)
        ELSE IF ~size.ok THEN LinksResult(r1, TRUE, FALSE)
        ELSE IF size.val = 0 THEN LinksResult(r1, FALSE, TRUE)
        ELSE LinksResult(r2, FALSE, FALSE)

\* the branch of getLinks for page[offset] and page[limit]
getLinksOffsetLimit(p, count) ==
    LET offset == ParseUint(p.offset)
        limit == ParseUint(p.limit)
        prevOffset == IF limit.val > offset.val THEN 0 ELSE offset.val - limit.val
        r1 == IF p.offset # <<"0">>
              THEN [NoLinks EXCEPT !.first = Link([p EXCEPT !.offset = <<"0">>]),
                                   !.prev = Link([p EXCEPT !.offset = FormatUint(prevOffset)])]
              ELSE NoLinks
        r2 == IF Wrap(offset.val + limit.val) < count
              THEN [r1 EXCEPT !.next = Link([p EXCEPT !.offset = FormatUint(Wrap(offset.val + limit.val))]),
                              !.last = Link([p EXCEPT !.offset = FormatUint(Wrap(count - limit.val))])]
              ELSE r1
    IN  IF ~offset.ok THEN LinksResult(NoLinks, TRUE, FALSE)
        ELSE IF ~limit.ok THEN LinksResult(NoLinks, TRUE, FALSE)
        ELSE LinksResult(r2, FALSE, FALSE)

getLinks(p, count) ==
    IF p.number # EmptyText THEN getLinksNumberSize(p, count) ELSE getLinksOffsetLimit(p, count)

\* ---------------------------------------------------------------- link planner specification

LinkAlphabet == {"0", "1", "2", "3", "x"}

RECURSIVE TextsOfLen(_)
TextsOfLen(n) ==
    IF n = 0 THEN {<<>>}
    ELSE {Append(s, c) : s \in TextsOfLen(n - 1), c \in LinkAlphabet}

ParamTexts == UNION {TextsOfLen(n) : n \in 1..MaxParamLen}

NoLinkInput == [p |-> paginationQueryParams(EmptyText, EmptyText, EmptyText, EmptyText), count |-> 0]

LinkInit ==
    /\ lpc = "idle"
    /\ lin = NoLinkInput
    /\ lout = LinksResult(NoLinks, FALSE, FALSE)

\* getLinks on a request with page[number] and page[size]
PlanNumberSize ==
    /\ lpc = "idle"
    /\ \E number \in ParamTexts, size \in ParamTexts, count \in 0..MaxCount :
          LET p == paginationQueryParams(number, size, EmptyText, EmptyText)
          IN  /\ isValid(p)
              /\ lin' = [p |-> p, count |-> count]
              /\ lout' = getLinks(p, count)
    /\ lpc' = "done"

\* getLinks on a request with page[offset] and page[limit]
PlanOffsetLimit ==
    /\ lpc = "idle"
    /\ \E offset \in ParamTexts, limit \in ParamTexts, count \in 0..MaxCount :
          LET p == paginationQueryParams(EmptyText, EmptyText, offset, limit)
          IN  /\ isValid(p)
              /\ lin' = [p |-> p, count |-> count]
              /\ lout' = getLinks(p, count)
    /\ lpc' = "done"

\* the next request's links
PlanNext ==
    /\ lpc = "done"
    /\ lpc' = "idle"
    /\ lin' = NoLinkInput
    /\ lout' = LinksResult(NoLinks, FALSE, FALSE)

\* ---------------------------------------------------------------- errors

StatusOK == 200

StatusCreated == 201

StatusAccepted == 202

StatusNoContent == 204

StatusForbidden == 403

StatusNotFound == 404

StatusInternalServerError == 500

StatusMethodNotAllowed == 405

\* the name the resource was registered under (resource.name)
ResName == "posts"

Err(kind, status, msg, code, resource, method) ==
    [kind |-> kind, status |-> status, msg |-> msg, code |-> code, resource |-> resource,
     method |-> method]

\* err == nil
NoError == Err("nil", 0, "", 0, "", "")

\* NewHTTPError(err, msg, status): an HTTPError carrying the status it was given
NewHTTPError(msg, status) == Err("HTTPError", status, msg, 0, "", "")

\* errors.New(msg): an error that is no HTTPError
errorsNew(msg) == Err("error", 0, msg, 0, "", "")

\* fmt.Errorf(msg + " %s", res.name): an error that names the resource
errorfResource(msg) == Err("error", 0, msg, 0, ResName, "")

\* fmt.Errorf("invalid status code %d from resource %s for method %s", ...)
invalidStatusCode(code, method) == Err("error", 0, "invalid status code", code, ResName, method)

\* ---------------------------------------------------------------- http.ResponseWriter

NoBody == [kind |-> "none", obj |-> "nil", links |-> NoLinks]

\* the document respondWith marshals from a backend response
Document(obj, links) == [kind |-> "document", obj |-> obj, links |-> links]

\* the document handleDelete marshals: {"meta": response.Metadata()}
MetaDocument == [kind |-> "meta", obj |-> "nil", links |-> NoLinks]

\* the document marshaler.MarshalError(err) produces
ErrorDocument == [kind |-> "errors", obj |-> "nil", links |-> NoLinks]

NewWriter == [writes |-> <<>>, location |-> "", body |-> NoBody]

WriterResult(w1, aborted) == [w |-> w1, panic |-> aborted]

\* w.WriteHeader(code): the first call sends the status line, a later call is
\* superfluous and changes nothing that is sent; a build that checks the code
\* panics on a first call with a code outside 100..999
WriteHeader(w0, code, checks) ==
    IF Len(w0.writes) > 0 THEN WriterResult([w0 EXCEPT !.writes = Append(@, code)], FALSE)
    ELSE IF checks /\ (code < 100 \/ code > 999) THEN WriterResult(w0, TRUE)
    ELSE WriterResult([w0 EXCEPT !.writes = <<code>>], FALSE)

\* the status line the client receives (0: none was sent)
SentStatus(w0) == IF Len(w0.writes) = 0 THEN 0 ELSE w0.writes[1]

bodyAllowedForStatus(status) ==
    ~(status >= 100 /\ status <= 199) /\ status # StatusNoContent /\ status # 304

\* w.Write(data): sends 200 when no status was sent, and drops the body of a
\* status that allows none
Write(w0, data) ==
    LET w1 == IF Len(w0.writes) = 0 THEN [w0 EXCEPT !.writes = <<StatusOK>>] ELSE w0
    IN  IF bodyAllowedForStatus(SentStatus(w1)) THEN [w1 EXCEPT !.body = data] ELSE w1

writeResult(w0, data, status, checks) ==
    LET h == WriteHeader(w0, status, checks)
    IN  IF h.panic THEN h ELSE WriterResult(Write(h.w, data), FALSE)

\* ---------------------------------------------------------------- backend and payloads

Objects == {"o1", "o2"}

Results == {"nil"} \cup Objects

BackendStatuses == {StatusOK, StatusCreated, StatusAccepted, StatusNoContent, 418}

Response(result, status) == [result |-> result, status |-> status]

NilResponse == Response("nil", 0)

BackendErrors ==
    {errorsNew("backend failure"), NewHTTPError("backend", 0), NewHTTPError("backend", StatusNotFound)}

\* what one call of the CRUD source can return: an error, or a Responder
BackendReturns ==
    {[err |-> e, resp |-> NilResponse, count |-> 0] : e \in BackendErrors}
    \cup {[err |-> NoError, resp |-> Response(r, s), count |-> 0] : r \in Results, s \in BackendStatuses}

\* what PaginatedFindAll can return: an error, or a count and a Responder
PaginatedReturns ==
    {[err |-> e, resp |-> NilResponse, count |-> 0] : e \in BackendErrors}
    \cup {[err |-> NoError, resp |-> Response(r, s), count |-> c] :
              r \in Results, s \in BackendStatuses, c \in {0, MaxCount}}

Call(op, arg, ret) == [op |-> op, arg |-> arg, err |-> ret.err, resp |-> ret.resp, count |-> ret.count]

Ids == {"1", "2"}

\* the ids the entries of a linkage array carry
EntryIds == {"a", "b"}

\* an entry of a linkage array: an object with a string id (the id), an object
\* without one, or a value that is no object
EntryKinds == EntryIds \cup {"noid", "notobject"}

\* the attributes and relationships of the resource's struct
Fields == {"title", "author"}

RECURSIVE EntriesOfLen(_)
EntriesOfLen(n) ==
    IF n = 0 THEN {<<>>}
    ELSE {Append(s, k) : s \in EntriesOfLen(n - 1), k \in EntryKinds}

\* attrs: the attributes and relationships a data object carries
Payload(io, syntax, data, hasId, hasType, entries) ==
    [io |-> io, syntax |-> syntax, data |-> data, hasId |-> hasId, hasType |-> hasType,
     entries |-> entries, attrs |-> {}]

\* the request bodies: unreadable, not parseable by the codec, without a data
\* member, with a scalar, an object or an array as data
Payloads ==
    {Payload("readError", "ok", "absent", FALSE, FALSE, <<>>),
     Payload("ok", "bad", "absent", FALSE, FALSE, <<>>),
     Payload("ok", "ok", "absent", FALSE, FALSE, <<>>),
     Payload("ok", "ok", "scalar", FALSE, FALSE, <<>>)}
    \cup {Payload("ok", "ok", "object", i, t, <<>>) : i \in BOOLEAN, t \in BOOLEAN}
    \cup {[Payload("ok", "ok", "object", TRUE, TRUE, <<>>) EXCEPT !.attrs = a] : a \in SUBSET Fields}
    \cup {Payload("ok", "ok", "array", FALSE, FALSE, e) :
              e \in UNION {EntriesOfLen(n) : n \in 0..MaxEntries}}

NoPayload == Payload("ok", "ok", "absent", FALSE, FALSE, <<>>)

NoParams == paginationQueryParams(EmptyText, EmptyText, EmptyText, EmptyText)

\* a jsonapi.Reference of the resource's struct
Reference(name, type) == [name |-> name, type |-> type]

NoReference == Reference("", "")

\* a map of query parameters without keys
NoQuery == [k \in {} |-> <<>>]

\* hasPaginatedFindAll, hasFindAll: the interfaces of the source the listing is
\* asked of; editToMany: the struct implements jsonapi.EditToManyRelations;
\* relation: the reference the route was registered for; query: r.URL.Query()
Request(id, page, payload, codecFails, paginated, plain, editable) ==
    [id |-> id, page |-> page, payload |-> payload, codecFails |-> codecFails,
     hasPaginatedFindAll |-> paginated, hasFindAll |-> plain, editToMany |-> editable,
     relation |-> NoReference, query |-> NoQuery]

NoRequest == Request("1", NoParams, NoPayload, FALSE, TRUE, TRUE, TRUE)

\* unmarshalRequest: ioutil.ReadAll then marshaler.Unmarshal
unmarshalRequest(payload) ==
    IF payload.io # "ok" THEN errorsNew("read failed")
    ELSE IF payload.syntax # "ok" THEN errorsNew("unmarshal failed")
    ELSE NoError

\* the struct a backend result stands for: every field holds the value the
\* backend stored
Stored(result) == [f \in Fields |-> result]

\* a struct as reflect.New makes it
ZeroValue == [f \in Fields |-> "zero"]

\* jsonapi.UnmarshalInto: as many objects as the data member has, a data object
\* mapped by key onto the target the caller supplied (onto a new struct when it
\* supplied none); a field the payload omits keeps the target's value
UnmarshalInto(payload, targets) ==
    LET target == IF Len(targets) > 0 THEN targets[1] ELSE ZeroValue
    IN  IF payload.data = "object"
        THEN [ok |-> TRUE,
              objs |-> <<[f \in Fields |-> IF f \in payload.attrs THEN "payload" ELSE target[f]]>>]
        ELSE IF payload.data = "array" /\ \A i \in 1..Len(payload.entries) : payload.entries[i] # "notobject"
        THEN [ok |-> TRUE, objs |-> [i \in 1..Len(payload.entries) |-> ZeroValue]]
        ELSE [ok |-> FALSE, objs |-> targets]

\* jsonapi.UnmarshalRelationshipsData: a linkage object or array whose entries carry an id
UnmarshalRelationshipsData(payload) ==
    \/ payload.data = "object" /\ payload.hasId
    \/ payload.data = "array" /\ \A i \in 1..Len(payload.entries) : payload.entries[i] \in EntryIds

\* jsonapi.MarshalWithURLs: fails on a nil result
MarshalWithURLs(result) == result # "nil"

\* ---------------------------------------------------------------- responding

Responded(w1, e, aborted) == [w |-> w1, err |-> e, panic |-> aborted]

marshalResponse(doc, w0, status, codecFails, checks) ==
    IF codecFails THEN Responded(w0, errorsNew("marshal failed"), FALSE)
    ELSE LET r == writeResult(w0, doc, status, checks)
         IN  Responded(r.w, NoError, r.panic)

respondWith(obj, status, w0, codecFails, checks) ==
    IF ~MarshalWithURLs(obj.result) THEN Responded(w0, errorsNew("marshal only works with objects"), FALSE)
    ELSE marshalResponse(Document(obj.result, NoLinks), w0, status, codecFails, checks)

respondWithPagination(obj, status, links, w0, codecFails, checks) ==
    IF ~MarshalWithURLs(obj.result) THEN Responded(w0, errorsNew("marshal only works with objects"), FALSE)
    ELSE marshalResponse(Document(obj.result, links), w0, status, codecFails, checks)

\* the status handleError resolves for an error
errorStatus(e) == IF e.kind = "HTTPError" THEN e.status ELSE StatusInternalServerError

handleError(e, w0, checks) == writeResult(w0, ErrorDocument, errorStatus(e), checks)

\* what a verb handler leaves behind: the backend calls it made, the writer, the
\* error it returned, whether it panicked, the response it handed to respondWith
\* what a handler did besides backend calls and writes: body is the state of
\* r.Body, edits the AddToManyIDs / DeleteToManyIDs calls on the object, passed
\* the objects handed to the backend Update, query the QueryParams of the
\* Request handed to the listing call
NoEffects == [body |-> "unread", edits |-> <<>>, passed |-> <<>>, query |-> NoQuery]

Outcome(cs, w1, e, aborted, resp) ==
    [calls |-> cs, w |-> w1, err |-> e, panic |-> aborted, responded |-> resp, effects |-> NoEffects]

Failed(cs, w1, e) == Outcome(cs, w1, e, FALSE, NilResponse)

Panicked(cs, w1) == Outcome(cs, w1, NoError, TRUE, NilResponse)

Answered(cs, r, resp) == Outcome(cs, r.w, r.err, r.panic, resp)

\* unmarshalRequest's ioutil.ReadAll and deferred r.Body.Close(), in the
\* handler that goes on to out: the body is closed, and read to its end unless
\* reading failed
bodyConsumed(payload, out) ==
    [out EXCEPT !.effects.body = IF payload.io = "ok" THEN "drained and closed" ELSE "closed"]

\* source.Update(obj, request) in the handler that goes on to out
passedToUpdate(obj, out) == [out EXCEPT !.effects.passed = <<obj>> \o @]

\* AddToManyIDs / DeleteToManyIDs(relation.Name, ids) on the object FindOne
\* returned, after the backend calls cs, in the handler that goes on to out
editedToMany(edit, name, ids, cs, out) ==
    [out EXCEPT !.effects.edits =
        <<[op |-> edit, name |-> name, ids |-> ids, after |-> Len(cs)]>> \o @]

\* ---------------------------------------------------------------- verb handlers

handleIndex(req, w0, listing, checks) ==
    LET paged == <<Call("PaginatedFindAll", "", listing)>>
        plain == <<Call("FindAll", "", listing)>>
        paginationLinks == getLinks(req.page, listing.count)
    IN  IF isValid(req.page)
        THEN IF ~req.hasPaginatedFindAll
             THEN Failed(<<>>, w0, NewHTTPError("Resource does not implement the PaginatedFindAll interface", StatusNotFound))
             ELSE IF listing.err # NoError THEN Failed(paged, w0, listing.err)
             ELSE IF paginationLinks.panic THEN Panicked(paged, w0)
             ELSE IF paginationLinks.err THEN Failed(paged, w0, errorsNew("strconv.ParseUint"))
             ELSE Answered(paged,
                           respondWithPagination(listing.resp, StatusOK, paginationLinks.result, w0, req.codecFails, checks),
                           listing.resp)
        ELSE IF ~req.hasFindAll
             THEN Failed(<<>>, w0, NewHTTPError("Resource does not implement the FindAll interface", StatusNotFound))
             ELSE IF listing.err # NoError THEN Failed(plain, w0, listing.err)
             ELSE Answered(plain, respondWith(listing.resp, StatusOK, w0, req.codecFails, checks), listing.resp)

handleRead(req, w0, found, checks) ==
    LET cs == <<Call("FindOne", req.id, found)>>
    IN  IF found.err # NoError THEN Failed(cs, w0, found.err)
        ELSE Answered(cs, respondWith(found.resp, StatusOK, w0, req.codecFails, checks), found.resp)

\* api.prefix, which the route of Create hands to handleCreate
prefix == "/v1/"

\* result.GetID(): the id of an object the backend returned
GetID(result) == IF result = "o1" THEN "1" ELSE "2"

handleCreate(req, w0, created, checks) ==
    LET um == unmarshalRequest(req.payload)
        into == UnmarshalInto(req.payload, <<>>)
        cs == <<Call("Create", "new", created)>>
        w1 == [w0 EXCEPT !.location = prefix \o ResName \o "/" \o GetID(created.resp.result)]
        status == created.resp.status
    IN  bodyConsumed(req.payload,
            IF um # NoError THEN Failed(<<>>, w0, um)
            ELSE IF ~into.ok THEN Failed(<<>>, w0, errorsNew("UnmarshalInto"))
            ELSE IF Len(into.objs) # 1 THEN Failed(<<>>, w0, errorsNew("expected one object in POST"))
            ELSE IF created.err # NoError THEN Failed(cs, w0, created.err)
            ELSE IF created.resp.result \notin Objects
            THEN Failed(cs, w0, errorfResource("Expected one newly created object by resource"))
            ELSE IF status = StatusCreated
            THEN Answered(cs, respondWith(created.resp, StatusCreated, w1, req.codecFails, checks), created.resp)
            ELSE IF status = StatusNoContent \/ status = StatusAccepted
            THEN Outcome(cs, WriteHeader(w1, status, checks).w, NoError, FALSE, NilResponse)
            ELSE Failed(cs, w1, invalidStatusCode(status, "Create")))

\* the switch of handleUpdate with the assignment response = internalResponse
\* left out: the re-read is made and checked, the answer is built from Update's response
updateResponse_keepsUpdateResponse(req, w0, cs, updated, reread, checks) ==
    LET status == updated.resp.status
        cs2 == Append(cs, Call("FindOne", req.id, reread))
    IN  IF status = StatusOK
        THEN IF updated.resp.result = "nil"
             THEN IF reread.err # NoError THEN Failed(cs2, w0, reread.err)
                  ELSE IF reread.resp.result = "nil"
                  THEN Failed(cs2, w0, errorfResource("Expected FindOne to return one object of resource"))
                  ELSE Answered(cs2, respondWith(updated.resp, StatusOK, w0, req.codecFails, checks), updated.resp)
             ELSE Answered(cs, respondWith(updated.resp, StatusOK, w0, req.codecFails, checks), updated.resp)
        ELSE IF status = StatusAccepted
        THEN Outcome(cs, WriteHeader(w0, StatusAccepted, checks).w, NoError, FALSE, NilResponse)
        ELSE IF status = StatusNoContent
        THEN Outcome(cs, WriteHeader(w0, StatusNoContent, checks).w, NoError, FALSE, NilResponse)
        ELSE Failed(cs, w0, invalidStatusCode(status, "Update"))

\* the switch of handleUpdate on the status the backend Update reported
updateResponse(req, w0, cs, updated, reread, checks) ==
    LET status == updated.resp.status
        cs2 == Append(cs, Call("FindOne", req.id, reread))
    IN  IF status = StatusOK
        THEN IF updated.resp.result = "nil"
             THEN IF reread.err # NoError THEN Failed(cs2, w0, reread.err)
                  ELSE IF reread.resp.result = "nil"
                  THEN Failed(cs2, w0, errorfResource("Expected FindOne to return one object of resource"))
                  ELSE Answered(cs2, respondWith(reread.resp, StatusOK, w0, req.codecFails, checks), reread.resp)
             ELSE Answered(cs, respondWith(updated.resp, StatusOK, w0, req.codecFails, checks), updated.resp)
        ELSE IF status = StatusAccepted
        THEN Outcome(cs, WriteHeader(w0, StatusAccepted, checks).w, NoError, FALSE, NilResponse)
        ELSE IF status = StatusNoContent
        THEN Outcome(cs, WriteHeader(w0, StatusNoContent, checks).w, NoError, FALSE, NilResponse)
        ELSE Failed(cs, w0, invalidStatusCode(status, "Update"))

\* handleUpdate unmarshalling into an empty slice instead of the slice that
\* holds the object FindOne returned
handleUpdate_emptyTarget(req, w0, found, updated, reread, checks) ==
    LET c1 == <<Call("FindOne", req.id, found)>>
        um == unmarshalRequest(req.payload)
        updatingObjs == <<>>
        into == UnmarshalInto(req.payload, updatingObjs)
        c2 == Append(c1, Call("Update", found.resp.result, updated))
    IN  IF found.err # NoError THEN Failed(c1, w0, found.err)
        ELSE bodyConsumed(req.payload,
            IF um # NoError THEN Failed(c1, w0, um)
            ELSE IF req.payload.data = "absent"
            THEN Failed(c1, w0, NewHTTPError("missing mandatory data key.", StatusForbidden))
            ELSE IF req.payload.data # "object"
            THEN Failed(c1, w0, NewHTTPError("data must contain an object.", StatusForbidden))
            ELSE IF ~req.payload.hasId
            THEN Failed(c1, w0, NewHTTPError("missing mandatory id key.", StatusForbidden))
            ELSE IF ~req.payload.hasType
            THEN Failed(c1, w0, NewHTTPError("missing mandatory type key.", StatusForbidden))
            ELSE IF found.resp.result = "nil" THEN Panicked(c1, w0)
            ELSE IF ~into.ok THEN Failed(c1, w0, errorsNew("UnmarshalInto"))
            ELSE IF Len(into.objs) # 1 THEN Failed(c1, w0, errorsNew("expected one object"))
            ELSE passedToUpdate(into.objs[1],
                IF updated.err # NoError THEN Failed(c2, w0, updated.err)
                ELSE updateResponse(req, w0, c2, updated, reread, checks)))

\* handleUpdate without the check of the type key of the data object
handleUpdate_typeUnchecked(req, w0, found, updated, reread, checks) ==
    LET c1 == <<Call("FindOne", req.id, found)>>
        um == unmarshalRequest(req.payload)
        updatingObjs == <<Stored(found.resp.result)>>
        into == UnmarshalInto(req.payload, updatingObjs)
        c2 == Append(c1, Call("Update", found.resp.result, updated))
    IN  IF found.err # NoError THEN Failed(c1, w0, found.err)
        ELSE bodyConsumed(req.payload,
            IF um # NoError THEN Failed(c1, w0, um)
            ELSE IF req.payload.data = "absent"
            THEN Failed(c1, w0, NewHTTPError("missing mandatory data key.", StatusForbidden))
            ELSE IF req.payload.data # "object"
            THEN Failed(c1, w0, NewHTTPError("data must contain an object.", StatusForbidden))
            ELSE IF ~req.payload.hasId
            THEN Failed(c1, w0, NewHTTPError("missing mandatory id key.", StatusForbidden))
            ELSE IF found.resp.result = "nil" THEN Panicked(c1, w0)
            ELSE IF ~into.ok THEN Failed(c1, w0, errorsNew("UnmarshalInto"))
            ELSE IF Len(into.objs) # 1 THEN Failed(c1, w0, errorsNew("expected one object"))
            ELSE passedToUpdate(into.objs[1],
                IF updated.err # NoError THEN Failed(c2, w0, updated.err)
                ELSE updateResponse(req, w0, c2, updated, reread, checks)))

handleUpdate(req, w0, found, updated, reread, checks) ==
    LET c1 == <<Call("FindOne", req.id, found)>>
        um == unmarshalRequest(req.payload)
        updatingObjs == <<Stored(found.resp.result)>>
        into == UnmarshalInto(req.payload, updatingObjs)
        c2 == Append(c1, Call("Update", found.resp.result, updated))
    IN  IF found.err # NoError THEN Failed(c1, w0, found.err)
        ELSE bodyConsumed(req.payload,
            IF um # NoError THEN Failed(c1, w0, um)
            ELSE IF req.payload.data = "absent"
            THEN Failed(c1, w0, NewHTTPError("missing mandatory data key.", StatusForbidden))
            ELSE IF req.payload.data # "object"
            THEN Failed(c1, w0, NewHTTPError("data must contain an object.", StatusForbidden))
            ELSE IF ~req.payload.hasId
            THEN Failed(c1, w0, NewHTTPError("missing mandatory id key.", StatusForbidden))
            ELSE IF ~req.payload.hasType
            THEN Failed(c1, w0, NewHTTPError("missing mandatory type key.", StatusForbidden))
            ELSE IF found.resp.result = "nil" THEN Panicked(c1, w0)
            ELSE IF ~into.ok THEN Failed(c1, w0, errorsNew("UnmarshalInto"))
            ELSE IF Len(into.objs) # 1 THEN Failed(c1, w0, errorsNew("expected one object"))
            ELSE passedToUpdate(into.objs[1],
                IF updated.err # NoError THEN Failed(c2, w0, updated.err)
                ELSE updateResponse(req, w0, c2, updated, reread, checks)))

\* handleReplaceRelation passing on the status the backend Update reported
handleReplaceRelation_statusOfUpdate(req, w0, found, updated, checks) ==
    LET c1 == <<Call("FindOne", req.id, found)>>
        um == unmarshalRequest(req.payload)
        c2 == Append(c1, Call("Update", found.resp.result, updated))
    IN  IF found.err # NoError THEN Failed(c1, w0, found.err)
        ELSE bodyConsumed(req.payload,
            IF um # NoError THEN Failed(c1, w0, um)
            ELSE IF req.payload.data = "absent"
            THEN Failed(c1, w0, errorsNew("Invalid object. Need a data object"))
            ELSE IF found.resp.result = "nil" THEN Panicked(c1, w0)
            ELSE IF ~UnmarshalRelationshipsData(req.payload)
            THEN Failed(c1, w0, errorsNew("UnmarshalRelationshipsData"))
            ELSE Outcome(c2, WriteHeader(w0, IF updated.err = NoError THEN updated.resp.status ELSE StatusNoContent, checks).w,
                         updated.err, FALSE, NilResponse))

handleReplaceRelation(req, w0, found, updated, checks) ==
    LET c1 == <<Call("FindOne", req.id, found)>>
        um == unmarshalRequest(req.payload)
        c2 == Append(c1, Call("Update", found.resp.result, updated))
    IN  IF found.err # NoError THEN Failed(c1, w0, found.err)
        ELSE bodyConsumed(req.payload,
            IF um # NoError THEN Failed(c1, w0, um)
            ELSE IF req.payload.data = "absent"
            THEN Failed(c1, w0, errorsNew("Invalid object. Need a data object"))
            ELSE IF found.resp.result = "nil" THEN Panicked(c1, w0)
            ELSE IF ~UnmarshalRelationshipsData(req.payload)
            THEN Failed(c1, w0, errorsNew("UnmarshalRelationshipsData"))
            ELSE Outcome(c2, WriteHeader(w0, StatusNoContent, checks).w, updated.err, FALSE, NilResponse))

\* the checks handleAddToManyRelation and handleDeleteToManyRelation make on the
\* data member before they edit: an array whose entries are objects with a string id
toManyPayloadError(payload) ==
    LET bad == {i \in 1..Len(payload.entries) : payload.entries[i] \notin EntryIds}
        first == CHOOSE i \in bad : \A j \in bad : i <= j
    IN  IF payload.data = "absent" THEN errorsNew("Invalid object. Need a data object")
        ELSE IF payload.data # "array"
        THEN errorsNew("Data must be an array with id and type field to add new to-many relationships")
        ELSE IF bad = {} THEN NoError
        ELSE IF payload.entries[first] = "notobject" THEN errorsNew("entry in data object invalid")
        ELSE errorsNew("no id field found inside data object")

\* handleAddToManyRelation and handleDeleteToManyRelation applying the ids
\* collected so far when an entry of the data array is malformed
handleEditToManyRelation_partial(edit, req, w0, found, updated, checks) ==
    LET c1 == <<Call("FindOne", req.id, found)>>
        um == unmarshalRequest(req.payload)
        bad == toManyPayloadError(req.payload)
        newIDs == SelectSeq(req.payload.entries, LAMBDA entry : entry \in EntryIds)
        c2 == Append(c1, Call("Update", found.resp.result, updated))
    IN  IF found.err # NoError THEN Failed(c1, w0, found.err)
        ELSE bodyConsumed(req.payload,
            IF um # NoError THEN Failed(c1, w0, um)
            ELSE IF req.payload.data # "array" THEN Failed(c1, w0, bad)
            ELSE IF found.resp.result = "nil" THEN Panicked(c1, w0)
            ELSE IF ~req.editToMany
            THEN Failed(c1, w0, errorsNew("target struct must implement jsonapi.EditToManyRelations"))
            ELSE editedToMany(edit, req.relation.name, newIDs, c1,
                    IF bad # NoError THEN Failed(c1, w0, bad)
                    ELSE Outcome(c2, WriteHeader(w0, StatusNoContent, checks).w, updated.err, FALSE, NilResponse)))

\* handleAddToManyRelation and handleDeleteToManyRelation differ in the edit
\* they apply to the object (AddToManyIDs, DeleteToManyIDs) and in nothing else
handleEditToManyRelation(edit, req, w0, found, updated, checks) ==
    LET c1 == <<Call("FindOne", req.id, found)>>
        um == unmarshalRequest(req.payload)
        bad == toManyPayloadError(req.payload)
        newIDs == req.payload.entries
        c2 == Append(c1, Call("Update", found.resp.result, updated))
    IN  IF found.err # NoError THEN Failed(c1, w0, found.err)
        ELSE bodyConsumed(req.payload,
            IF um # NoError THEN Failed(c1, w0, um)
            ELSE IF bad # NoError THEN Failed(c1, w0, bad)
            ELSE IF found.resp.result = "nil" THEN Panicked(c1, w0)
            ELSE IF ~req.editToMany
            THEN Failed(c1, w0, errorsNew("target struct must implement jsonapi.EditToManyRelations"))
            ELSE editedToMany(edit, req.relation.name, newIDs, c1,
                    Outcome(c2, WriteHeader(w0, StatusNoContent, checks).w, updated.err, FALSE, NilResponse)))

handleAddToManyRelation(req, w0, found, updated, checks) ==
    handleEditToManyRelation("AddToManyIDs", req, w0, found, updated, checks)

handleDeleteToManyRelation(req, w0, found, updated, checks) ==
    handleEditToManyRelation("DeleteToManyIDs", req, w0, found, updated, checks)

handleDelete(req, w0, deleted, checks) ==
    LET cs == <<Call("Delete", req.id, deleted)>>
        status == deleted.resp.status
    IN  IF deleted.err # NoError THEN Failed(cs, w0, deleted.err)
        ELSE IF status = StatusOK
        THEN Answered(cs, marshalResponse(MetaDocument, w0, StatusOK, req.codecFails, checks), NilResponse)
        ELSE IF status = StatusAccepted
        THEN Outcome(cs, WriteHeader(w0, StatusAccepted, checks).w, NoError, FALSE, NilResponse)
        ELSE IF status = StatusNoContent
        THEN Outcome(cs, WriteHeader(w0, StatusNoContent, checks).w, NoError, FALSE, NilResponse)
        ELSE Failed(cs, w0, invalidStatusCode(status, "Delete"))

\* the text of a one-token string
Text(token) == <<token>>

\* the pieces of a text between its commas (strings.Split(text, ","))
RECURSIVE Split(_)
Split(text) ==
    LET commas == {i \in 1..Len(text) : text[i] = ","}
        first == CHOOSE i \in commas : \A j \in commas : i <= j
    IN  IF commas = {} THEN <<text>>
        ELSE <<SubSeq(text, 1, first - 1)>> \o Split(SubSeq(text, first + 1, Len(text)))

\* buildRequest: for every key of r.URL.Query(), the first of its values split
\* at the commas
buildRequest(values) == [key \in DOMAIN values |-> Split(values[key][1])]

\* the Detail without the name of the reference
NotRegisteredDetail_anonymous(name) == "No resource handler is registered to handle the linked resource"

\* the Detail of the Error handleLinked answers with when no resource is
\* registered for the reference
NotRegisteredDetail(name) == "No resource handler is registered to handle the linked resource " \o name

\* the two assignments of handleLinked made only for keys the client did not send
withSourceKeys_clientWins(params, idKey, id, nameKey, name) ==
    [key \in DOMAIN params \cup {idKey, nameKey} |->
        IF key \in DOMAIN params THEN params[key]
        ELSE IF key = nameKey THEN <<Text(name)>>
        ELSE <<Text(id)>>]

\* request.QueryParams after the two assignments of handleLinked: the keys
\* idKey and nameKey hold the path id and the reference's name
withSourceKeys(params, idKey, id, nameKey, name) ==
    [key \in DOMAIN params \cup {idKey, nameKey} |->
        IF key = nameKey THEN <<Text(name)>>
        ELSE IF key = idKey THEN <<Text(id)>>
        ELSE params[key]]

\* the Request the listing call of out was given
listedWith(params, out) == [out EXCEPT !.effects.query = params]

handleLinked(api, req, w0, listing, checks) ==
    LET linked == req.relation
        named == {i \in 1..Len(api) : api[i].name = linked.type}
        resource == api[CHOOSE i \in named : \A j \in named : i <= j]
        params == buildRequest(req.query)
        idKey == ResName \o "ID"
        nameKey == ResName \o "Name"
        QueryParams == withSourceKeys(params, idKey, req.id, nameKey, linked.name)
        paged == <<Call("PaginatedFindAll", resource.name, listing)>>
        plain == <<Call("FindAll", resource.name, listing)>>
        paginationLinks == getLinks(req.page, listing.count)
        answ == Response(NotRegisteredDetail(linked.name), StatusNotFound)
    IN  IF named = {}
        THEN Answered(<<>>, respondWith(answ, StatusNotFound, w0, req.codecFails, checks), answ)
        ELSE IF isValid(req.page)
        THEN IF ~req.hasPaginatedFindAll
             THEN Failed(<<>>, w0, NewHTTPError("Resource does not implement the PaginatedFindAll interface", StatusNotFound))
             ELSE listedWith(QueryParams,
                     IF listing.err # NoError THEN Failed(paged, w0, listing.err)
                     ELSE IF paginationLinks.panic THEN Panicked(paged, w0)
                     ELSE IF paginationLinks.err THEN Failed(paged, w0, errorsNew("strconv.ParseUint"))
                     ELSE Answered(paged,
                                   respondWithPagination(listing.resp, StatusOK, paginationLinks.result, w0, req.codecFails, checks),
                                   listing.resp))
        ELSE IF ~req.hasFindAll
             THEN Failed(<<>>, w0, NewHTTPError("Resource does not implement the FindAll interface", StatusNotFound))
             ELSE listedWith(QueryParams,
                     IF listing.err # NoError THEN Failed(plain, w0, listing.err)
                     ELSE Answered(plain, respondWith(listing.resp, StatusOK, w0, req.codecFails, checks), listing.resp))

\* the route closures of addResource: the handler, then handleError on the
\* error it returned
route(out, checks) ==
    IF out.err # NoError /\ ~out.panic
    THEN LET h == handleError(out.err, out.w, checks)
         IN  [out EXCEPT !.w = h.w, !.panic = h.panic]
    ELSE out

\* notAllowedHandler.ServeHTTP: the status line, and then handleError on the
\* HTTPError made for it, which writes a status again; nothing is returned
notAllowedHandler_ServeHTTP(w0, checks) ==
    LET e == NewHTTPError("Method Not Allowed", StatusMethodNotAllowed)
        h == WriteHeader(w0, StatusMethodNotAllowed, checks)
        r == IF h.panic THEN h ELSE handleError(e, h.w, checks)
    IN  Outcome(<<>>, r.w, NoError, r.panic, NilResponse)

\* ---------------------------------------------------------------- dispatcher specification

IndexParamTexts == {EmptyText, <<"0">>, <<"2">>, <<"x">>}

\* a resource of api.resources
Resource(name) == [name |-> name]

\* the registry AddResource built: the resource the requests go to and a sibling
Registered == <<Resource(ResName), Resource("comments")>>

\* the references of the struct of resource ResName: to a sibling, to a type
\* no resource is registered for, and to the resource itself
References == {Reference("comments", "comments"), Reference("author", "users"), Reference("replies", ResName)}

\* the reference the relationship routes are asked for
EditedReference == Reference("comments", "comments")

\* page parameters of linked-resource requests: none, both strategies with
\* parseable and unparseable values, and a mixed combination
LinkedPages ==
    {NoParams,
     paginationQueryParams(<<"2">>, <<"2">>, EmptyText, EmptyText),
     paginationQueryParams(<<"2">>, <<"x">>, EmptyText, EmptyText),
     paginationQueryParams(<<"x">>, <<"2">>, EmptyText, EmptyText),
     paginationQueryParams(EmptyText, EmptyText, <<"2">>, <<"2">>),
     paginationQueryParams(EmptyText, EmptyText, <<"2">>, <<"x">>),
     paginationQueryParams(EmptyText, EmptyText, <<"x">>, <<"2">>),
     paginationQueryParams(<<"2">>, EmptyText, EmptyText, <<"2">>)}

\* r.URL.Query() of linked-resource requests: no key, a key with a comma
\* list, and the two keys handleLinked sets given by the client, with a key
\* that has two values
ClientQueries ==
    {NoQuery,
     [key \in {"q"} |-> <<<<"a", ",", "b">>>>],
     [key \in {ResName \o "ID", ResName \o "Name", "q"} |-> <<<<"9">>, <<"8">>>>]}

DispatchInit ==
    /\ pc = "idle"
    /\ verb = "none"
    /\ request = NoRequest
    /\ calls = <<>>
    /\ w = NewWriter
    /\ err = NoError
    /\ panicked = FALSE
    /\ responded = NilResponse
    /\ effects = NoEffects
    /\ resources = Registered
    /\ strict \in BOOLEAN

Serve(v, req, out) ==
    LET fin == route(out, strict)
    IN  /\ pc' = "done"
        /\ verb' = v
        /\ request' = req
        /\ calls' = fin.calls
        /\ w' = fin.w
        /\ err' = fin.err
        /\ panicked' = fin.panic
        /\ responded' = fin.responded
        /\ effects' = fin.effects
        /\ UNCHANGED <<resources, strict, linkVars, codecVars, servingVars, marshalVars>>

\* the backend answers the calls a handler makes and no others: a call the
\* handler does not reach returns nothing
Unasked == [err |-> NoError, resp |-> NilResponse, count |-> 0]

AnswersTo(out, n) == IF Len(out.calls) >= n THEN BackendReturns ELSE {Unasked}

\* GET R
Index ==
    /\ pc = "idle"
    /\ \E number \in IndexParamTexts, size \in IndexParamTexts, offset \in IndexParamTexts,
          limit \in IndexParamTexts, listing \in PaginatedReturns, codecFails \in BOOLEAN,
          paginated \in BOOLEAN, plain \in BOOLEAN :
          LET req == Request("", paginationQueryParams(number, size, offset, limit), NoPayload,
                             codecFails, paginated, plain, TRUE)
          IN  /\ isValid(req.page) \/ listing.count = 0
              /\ Serve("Index", req, handleIndex(req, NewWriter, listing, strict))

\* GET R/:id
Read ==
    /\ pc = "idle"
    /\ \E id \in Ids, found \in BackendReturns, codecFails \in BOOLEAN :
          LET req == Request(id, NoParams, NoPayload, codecFails, TRUE, TRUE, TRUE)
          IN  Serve("Read", req, handleRead(req, NewWriter, found, strict))

\* what the listing call of a request can return: a count comes with the
\* paginated listing only
ListingReturns(req) ==
    {ret \in PaginatedReturns : isValid(req.page) \/ ret.count = 0}

\* GET R/:id/:rel
Linked ==
    /\ pc = "idle"
    /\ \E id \in Ids, linked \in References, page \in LinkedPages, values \in ClientQueries,
          codecFails \in BOOLEAN, paginated \in BOOLEAN, plain \in BOOLEAN :
          LET req == [Request(id, page, NoPayload, codecFails, paginated, plain, TRUE)
                         EXCEPT !.relation = linked, !.query = values]
          IN  \E listing \in (IF Len(handleLinked(resources, req, NewWriter, Unasked, strict).calls) = 0
                               THEN {Unasked} ELSE ListingReturns(req)) :
                  Serve("Linked", req, handleLinked(resources, req, NewWriter, listing, strict))

\* POST R
Create ==
    /\ pc = "idle"
    /\ \E payload \in Payloads, created \in BackendReturns, codecFails \in BOOLEAN :
          LET req == Request("", NoParams, payload, codecFails, TRUE, TRUE, TRUE)
          IN  Serve("Create", req, handleCreate(req, NewWriter, created, strict))

\* PATCH R/:id
Update ==
    /\ pc = "idle"
    /\ \E id \in Ids, payload \in Payloads, found \in BackendReturns, codecFails \in BOOLEAN :
          LET req == Request(id, NoParams, payload, codecFails, TRUE, TRUE, TRUE)
          IN  \E updated \in AnswersTo(handleUpdate(req, NewWriter, found, Unasked, Unasked, strict), 2) :
              \E reread \in AnswersTo(handleUpdate(req, NewWriter, found, updated, Unasked, strict), 3) :
                  Serve("Update", req, handleUpdate(req, NewWriter, found, updated, reread, strict))

\* PATCH R/:id/relationships/:rel
ReplaceRelation ==
    /\ pc = "idle"
    /\ \E id \in Ids, payload \in Payloads, found \in BackendReturns :
          LET req == [Request(id, NoParams, payload, FALSE, TRUE, TRUE, TRUE) EXCEPT !.relation = EditedReference]
          IN  \E updated \in AnswersTo(handleReplaceRelation(req, NewWriter, found, Unasked, strict), 2) :
                  Serve("ReplaceRelation", req, handleReplaceRelation(req, NewWriter, found, updated, strict))

\* POST R/:id/relationships/:rel
AddToManyRelation ==
    /\ pc = "idle"
    /\ \E id \in Ids, payload \in Payloads, found \in BackendReturns, editable \in BOOLEAN :
          LET req == [Request(id, NoParams, payload, FALSE, TRUE, TRUE, editable) EXCEPT !.relation = EditedReference]
          IN  \E updated \in AnswersTo(handleAddToManyRelation(req, NewWriter, found, Unasked, strict), 2) :
                  Serve("AddToManyRelation", req, handleAddToManyRelation(req, NewWriter, found, updated, strict))

\* DELETE R/:id/relationships/:rel
DeleteToManyRelation ==
    /\ pc = "idle"
    /\ \E id \in Ids, payload \in Payloads, found \in BackendReturns, editable \in BOOLEAN :
          LET req == [Request(id, NoParams, payload, FALSE, TRUE, TRUE, editable) EXCEPT !.relation = EditedReference]
          IN  \E updated \in AnswersTo(handleDeleteToManyRelation(req, NewWriter, found, Unasked, strict), 2) :
                  Serve("DeleteToManyRelation", req, handleDeleteToManyRelation(req, NewWriter, found, updated, strict))

\* DELETE R/:id
Delete ==
    /\ pc = "idle"
    /\ \E id \in Ids, deleted \in BackendReturns, codecFails \in BOOLEAN :
          LET req == Request(id, NoParams, NoPayload, codecFails, TRUE, TRUE, TRUE)
          IN  Serve("Delete", req, handleDelete(req, NewWriter, deleted, strict))

\* a method the router has no route for: notAllowedHandler.ServeHTTP
MethodNotAllowed ==
    /\ pc = "idle"
    /\ LET fin == notAllowedHandler_ServeHTTP(NewWriter, strict)
       IN  /\ pc' = "done"
           /\ verb' = "MethodNotAllowed"
           /\ request' = NoRequest
           /\ calls' = fin.calls
           /\ w' = fin.w
           /\ err' = fin.err
           /\ panicked' = fin.panic
           /\ responded' = fin.responded
           /\ effects' = fin.effects
    /\ UNCHANGED <<resources, strict, linkVars, codecVars, servingVars, marshalVars>>

\* the response is complete; the server takes the next request with a fresh writer
NextRequest ==
    /\ pc = "done"
    /\ pc' = "idle"
    /\ verb' = "none"
    /\ request' = NoRequest
    /\ calls' = <<>>
    /\ w' = NewWriter
    /\ err' = NoError
    /\ panicked' = FALSE
    /\ responded' = NilResponse
    /\ effects' = NoEffects
    /\ UNCHANGED <<resources, strict, linkVars, codecVars, servingVars, marshalVars>>

\* ---------------------------------------------------------------- codec selection

MediaType(type, subtype, params) == [type |-> type, subtype |-> subtype, params |-> params]

\* "application/vnd.api+json"
defaultContentTypHeader == MediaType("application", "vnd.api+json", "")

\* the content types marshalers are registered under
ContentTypes == {defaultContentTypHeader, MediaType("application", "json", ""), MediaType("text", "xml", "")}

\* JSONContentMarshaler{}
JSONContentMarshaler == "JSONContentMarshaler"

\* the marshalers maps an API is built with: the built-in JSON marshaler under
\* the default content type, or marshalers of the application, one for every
\* content type it registers, the default content type among them
MarshalerMaps ==
    {[ct \in {defaultContentTypHeader} |-> JSONContentMarshaler]}
    \cup {[ct \in registered |-> ct.subtype \o " marshaler"] :
              registered \in {types \in SUBSET ContentTypes : defaultContentTypHeader \in types}}

\* a media range of an Accept header with its quality in tenths, as
\* header.ParseAccept yields it
AcceptSpec(value, q) == [value |-> value, q |-> q]

AcceptValues == ContentTypes \cup {MediaType("*", "*", ""), MediaType("application", "*", "")}

AcceptSpecs == {AcceptSpec(value, q) : value \in AcceptValues, q \in {0, 5, 10}}

RECURSIVE SpecsOfLen(_)
SpecsOfLen(n) ==
    IF n = 0 THEN {<<>>}
    ELSE {Append(specs, spec) : specs \in SpecsOfLen(n - 1), spec \in AcceptSpecs}

\* r.Header["Accept"]: not found, or found with the media ranges it parses to
AcceptHeaders ==
    {[found |-> FALSE, specs |-> <<>>]}
    \cup {[found |-> TRUE, specs |-> specs] : specs \in UNION {SpecsOfLen(n) : n \in 0..MaxSpecs}}

\* r.Header["Content-Type"]: not found, or found with its values
ContentTypeHeaders ==
    {[found |-> FALSE, values |-> <<>>],
     [found |-> TRUE, values |-> <<defaultContentTypHeader>>],
     [found |-> TRUE, values |-> <<MediaType("text", "xml", ""), defaultContentTypHeader>>],
     [found |-> TRUE, values |-> <<MediaType("text", "xml", "charset=utf-8")>>]}

\* the orders a range over the marshalers map can take
IterationOrders(marshalers) ==
    {order \in [1..Cardinality(DOMAIN marshalers) -> DOMAIN marshalers] :
        \A i, j \in DOMAIN order : order[i] = order[j] => i = j}

Best(offer, q, wild) == [offer |-> offer, q |-> q, wild |-> wild]

\* one round of the inner loop of httputil.NegotiateContentType
negotiateSpec(best, offer, spec) ==
    IF spec.q = 0 THEN best
    ELSE IF spec.q < best.q THEN best
    ELSE IF spec.value.type = "*" /\ spec.value.subtype = "*"
    THEN IF spec.q > best.q \/ best.wild > 2 THEN Best(offer, spec.q, 2) ELSE best
    ELSE IF spec.value.subtype = "*"
    THEN IF offer.type = spec.value.type /\ (spec.q > best.q \/ best.wild > 1)
         THEN Best(offer, spec.q, 1) ELSE best
    ELSE IF spec.value = offer /\ (spec.q > best.q \/ best.wild > 0)
         THEN Best(offer, spec.q, 0) ELSE best

RECURSIVE negotiateSpecs(_, _, _, _)
negotiateSpecs(best, offer, specs, i) ==
    IF i > Len(specs) THEN best
    ELSE negotiateSpecs(negotiateSpec(best, offer, specs[i]), offer, specs, i + 1)

RECURSIVE negotiateOffers(_, _, _, _)
negotiateOffers(best, offers, specs, i) ==
    IF i > Len(offers) THEN best
    ELSE negotiateOffers(negotiateSpecs(best, offers[i], specs, 1), offers, specs, i + 1)

\* httputil.NegotiateContentType(r, offers, defaultOffer)
NegotiateContentType(specs, offers, defaultOffer) ==
    negotiateOffers(Best(defaultOffer, -1, 3), offers, specs, 1).offer

\* marshalers[contentType]: nil when no marshaler is registered under the key
Lookup(marshalers, contentType) ==
    IF contentType \in DOMAIN marshalers THEN marshalers[contentType] ELSE "nil"

Selection(marshaler, contentType) == [marshaler |-> marshaler, contentType |-> contentType]

\* selectContentMarshaler with the two header branches swapped: Content-Type
\* is looked up first and Accept is negotiated only without it
selectContentMarshaler_contentTypeFirst(r, marshalers, order) ==
    LET negotiated == NegotiateContentType(r.accept.specs, order, defaultContentTypHeader)
        selected ==
            IF r.contentType.found
            THEN Selection(Lookup(marshalers, r.contentType.values[1]), r.contentType.values[1])
            ELSE IF r.accept.found THEN Selection(Lookup(marshalers, negotiated), negotiated)
            ELSE Selection("nil", defaultContentTypHeader)
    IN  IF selected.marshaler = "nil"
        THEN Selection(JSONContentMarshaler, defaultContentTypHeader)
        ELSE selected

\* order: the order in which the range over marshalers yields the keys
selectContentMarshaler(r, marshalers, order) ==
    LET negotiated == NegotiateContentType(r.accept.specs, order, defaultContentTypHeader)
        selected ==
            IF r.accept.found THEN Selection(Lookup(marshalers, negotiated), negotiated)
            ELSE IF r.contentType.found
            THEN Selection(Lookup(marshalers, r.contentType.values[1]), r.contentType.values[1])
            ELSE Selection("nil", defaultContentTypHeader)
    IN  IF selected.marshaler = "nil"
        THEN Selection(JSONContentMarshaler, defaultContentTypHeader)
        ELSE selected

NoHeaders == [accept |-> [found |-> FALSE, specs |-> <<>>], contentType |-> [found |-> FALSE, values |-> <<>>]]

CodecInit ==
    /\ cpc = "idle"
    /\ cin = [r |-> NoHeaders, marshalers |-> [ct \in {defaultContentTypHeader} |-> JSONContentMarshaler]]
    /\ cout = <<>>

\* a request with a body: unmarshalRequest selects the codec that parses it,
\* then marshalResponse or handleError selects the codec of the response
SelectForRequest ==
    /\ cpc = "idle"
    /\ \E accept \in AcceptHeaders, contentType \in ContentTypeHeaders, marshalers \in MarshalerMaps :
          LET r == [accept |-> accept, contentType |-> contentType]
          IN  \E parsing \in IterationOrders(marshalers), responding \in IterationOrders(marshalers) :
                  /\ cin' = [r |-> r, marshalers |-> marshalers]
                  /\ cout' = <<selectContentMarshaler(r, marshalers, parsing),
                               selectContentMarshaler(r, marshalers, responding)>>
    /\ cpc' = "done"

SelectNext ==
    /\ cpc = "done"
    /\ cpc' = "idle"
    /\ cin' = [r |-> NoHeaders, marshalers |-> [ct \in {defaultContentTypHeader} |-> JSONContentMarshaler]]
    /\ cout' = <<>>

\* ---------------------------------------------------------------- concurrent serving

\* the goroutines net/http serves requests on
Goroutines == 1..MaxGoroutines

\* the linked-resource requests served concurrently
ServedRequests ==
    {[Request(id, page, NoPayload, FALSE, TRUE, TRUE, TRUE) EXCEPT !.relation = linked, !.query = values] :
        id \in {"1"}, linked \in References, values \in {NoQuery, [key \in {ResName \o "ID"} |-> <<<<"9">>>>]},
        page \in {NoParams, paginationQueryParams(<<"2">>, <<"2">>, EmptyText, EmptyText)}}

\* what the listing call returns to a request served concurrently
ServedReturns ==
    {[err |-> errorsNew("backend failure"), resp |-> NilResponse, count |-> 0],
     [err |-> NoError, resp |-> Response("o1", StatusOK), count |-> 0]}

\* a goroutine with no request
Idle == [at |-> "idle", req |-> NoRequest, api |-> <<>>, listing |-> Unasked,
         out |-> Outcome(<<>>, NewWriter, NoError, FALSE, NilResponse)]

\* api.resources with the name of the last resource assigned by a handler
resourcesAfterServing_renamed(api) == [api EXCEPT ![Len(api)].name = "served"]

\* api.resources after a verb handler ran up to its listing call, and after it
\* returned: the handlers read the slice and the resources in it, buildRequest
\* makes the Request they assign the query keys of, and nothing is assigned to
\* api.resources or to a field of a resource outside addResource
resourcesAfterServing(api) == api

ServingInit == inflight = [g \in Goroutines |-> Idle]

\* the router hands a linked-resource request to a goroutine
Accept(g) ==
    /\ inflight[g].at = "idle"
    /\ \E req \in ServedRequests : inflight' = [inflight EXCEPT ![g] = [Idle EXCEPT !.at = "accepted", !.req = req]]
    /\ UNCHANGED resources

\* handleLinked starts to range over api.resources
RangeResources(g) ==
    /\ inflight[g].at = "accepted"
    /\ inflight' = [inflight EXCEPT ![g].at = "looked up", ![g].api = resources]
    /\ resources' = resourcesAfterServing(resources)

\* handleLinked asks the listing of the resource it found, or finds none, and
\* responds; the route answers an error it returned
Respond(g) ==
    /\ inflight[g].at = "looked up"
    /\ LET req == inflight[g].req
           api == inflight[g].api
       IN  \E listing \in (IF Len(handleLinked(api, req, NewWriter, Unasked, strict).calls) = 0
                            THEN {Unasked} ELSE {ret \in ServedReturns : TRUE}) :
               inflight' = [inflight EXCEPT ![g].at = "done", ![g].listing = listing,
                                            ![g].out = route(handleLinked(api, req, NewWriter, listing, strict), strict)]
    /\ resources' = resourcesAfterServing(resources)

\* the goroutine is done with the request
Release(g) ==
    /\ inflight[g].at = "done"
    /\ inflight' = [inflight EXCEPT ![g] = Idle]
    /\ UNCHANGED resources

\* ---------------------------------------------------------------- marshalling relationships

\* the ids a Node refers to
NodeIDs == {"1", "2", "42"}

\* a jsonapi.ReferenceID: one linkage of the relationship of that name
ReferenceID(type, name, id) == [type |-> type, name |-> name, id |-> id]

\* the Node of the test: its mother, its children and its abandoned children
Node(mother, children, abandoned) ==
    [ID |-> "super", MotherID |-> mother, ChildIDs |-> children, AbandonedChildIDs |-> abandoned]

IDsOfLen(n) == [1..n -> NodeIDs]

Nodes ==
    {Node(mother, children, abandoned) :
        mother \in {""} \cup NodeIDs,
        children \in UNION {IDsOfLen(n) : n \in 0..MaxRefs},
        abandoned \in UNION {IDsOfLen(n) : n \in 0..MaxRefs}}

\* Node.GetReferences: three relationships to the one type "nodes"
GetReferences(n) ==
    <<Reference("mother-node", "nodes"), Reference("child-nodes", "nodes"),
      Reference("abandoned-child-nodes", "nodes")>>

\* Node.GetReferencedIDs: the mother when there is one, then the children and
\* then the abandoned children, each in the order of its slice
GetReferencedIDs(n) ==
    (IF n.MotherID # "" THEN <<ReferenceID("nodes", "mother-node", n.MotherID)>> ELSE <<>>)
    \o [i \in 1..Len(n.ChildIDs) |-> ReferenceID("nodes", "child-nodes", n.ChildIDs[i])]
    \o [i \in 1..Len(n.AbandonedChildIDs) |->
            ReferenceID("nodes", "abandoned-child-nodes", n.AbandonedChildIDs[i])]

\* a relationship is to-many when its name is a plural
ToMany(name) == name \in {"child-nodes", "abandoned-child-nodes"}

\* the {type, id} pointer to a related instance
Linkage(r) == [type |-> r.type, id |-> r.id]

collectReferenceIDs_byType(ids, ref) == SelectSeq(ids, LAMBDA r : r.type = ref.type)

\* the ReferenceIDs of a declared Reference: those whose name matches, in source order
collectReferenceIDs(ids, ref) == SelectSeq(ids, LAMBDA r : r.name = ref.name)

\* the data of a relationship entry: a sequence of linkages for to-many; for
\* to-one the single linkage, here the sequence of at most that one
RelationshipData(ref, matched) ==
    LET linkages == [i \in 1..Len(matched) |-> Linkage(matched[i])]
    IN  [many |-> ToMany(ref.name),
         data |-> IF ToMany(ref.name) \/ linkages = <<>> THEN linkages ELSE <<linkages[1]>>]

\* one relationship entry per declared Reference, keyed by its name
getStructRelationships(n) ==
    LET refs == GetReferences(n)
        declared(name) == CHOOSE i \in 1..Len(refs) : refs[i].name = name
    IN  [name \in {refs[i].name : i \in 1..Len(refs)} |->
            RelationshipData(refs[declared(name)], collectReferenceIDs(GetReferencedIDs(n), refs[declared(name)]))]

\* Marshal of one object: its resource object, without the attributes
Marshal(n) == [id |-> n.ID, type |-> "nodes", relationships |-> getStructRelationships(n)]

NoDocument == [id |-> "", type |-> "", relationships |-> [name \in {} |-> <<>>]]

MarshalInit ==
    /\ mpc = "idle"
    /\ node = Node("", <<>>, <<>>)
    /\ marshaled = NoDocument

\* Marshal(&theNode)
MarshalNode ==
    /\ mpc = "idle"
    /\ \E n \in Nodes :
        /\ node' = n
        /\ marshaled' = Marshal(n)
    /\ mpc' = "done"

MarshalNext ==
    /\ mpc = "done"
    /\ mpc' = "idle"
    /\ node' = Node("", <<>>, <<>>)
    /\ marshaled' = NoDocument

Init == DispatchInit /\ LinkInit /\ CodecInit /\ ServingInit /\ MarshalInit

Next ==
    \/ Index
    \/ Read
    \/ Linked
    \/ Create
    \/ Update
    \/ ReplaceRelation
    \/ AddToManyRelation
    \/ DeleteToManyRelation
    \/ Delete
    \/ MethodNotAllowed
    \/ NextRequest

Spec == Init /\ [][Next]_vars

LinkNext ==
    \/ PlanNumberSize /\ UNCHANGED <<dispatchVars, codecVars, servingVars, marshalVars>>
    \/ PlanOffsetLimit /\ UNCHANGED <<dispatchVars, codecVars, servingVars, marshalVars>>
    \/ PlanNext /\ UNCHANGED <<dispatchVars, codecVars, servingVars, marshalVars>>

SpecLinks == Init /\ [][LinkNext]_vars

CodecNext ==
    \/ SelectForRequest /\ UNCHANGED <<dispatchVars, linkVars, servingVars, marshalVars>>
    \/ SelectNext /\ UNCHANGED <<dispatchVars, linkVars, servingVars, marshalVars>>

SpecCodec == Init /\ [][CodecNext]_vars

ServingNext ==
    \/ \E g \in Goroutines : Accept(g) /\ UNCHANGED <<requestVars, linkVars, codecVars, marshalVars>>
    \/ \E g \in Goroutines : RangeResources(g) /\ UNCHANGED <<requestVars, linkVars, codecVars, marshalVars>>
    \/ \E g \in Goroutines : Respond(g) /\ UNCHANGED <<requestVars, linkVars, codecVars, marshalVars>>
    \/ \E g \in Goroutines : Release(g) /\ UNCHANGED <<requestVars, linkVars, codecVars, marshalVars>>

SpecServing == Init /\ [][ServingNext]_vars

MarshalingNext ==
    \/ MarshalNode /\ UNCHANGED <<dispatchVars, linkVars, codecVars, servingVars>>
    \/ MarshalNext /\ UNCHANGED <<dispatchVars, linkVars, codecVars, servingVars>>

SpecMarshal == Init /\ [][MarshalingNext]_vars

\* ---------------------------------------------------------------- properties: write verbs

WriteVerbs == {"Create", "Update", "Delete"}

RelationVerbs == {"ReplaceRelation", "AddToManyRelation", "DeleteToManyRelation"}

AcceptedStatuses(v) ==
    IF v = "Create" THEN {StatusCreated, StatusAccepted, StatusNoContent}
    ELSE {StatusOK, StatusAccepted, StatusNoContent}

IsSuccess(status) == status >= 200 /\ status <= 299

\* the request was served by v and the backend call of that name was the k-th
\* call and returned without error
Returned(v, op, k) ==
    /\ pc = "done"
    /\ verb = v
    /\ Len(calls) >= k
    /\ calls[k].op = op
    /\ calls[k].err = NoError

VerbCall(v) == IF v = "Update" THEN 2 ELSE 1

\* C1: when the backend call of Create, Update or Delete returns without error
\* and reports a status outside the verb's accepted set, the handler returns an
\* error that names the status, the resource and the verb, the response status
\* is 500 and the body is the error document, not a success document.
C1_InvalidStatusIsNamedError ==
    \A v \in WriteVerbs :
        (Returned(v, v, VerbCall(v)) /\ calls[VerbCall(v)].resp.status \notin AcceptedStatuses(v))
        => /\ err.kind = "error"
           /\ err.msg = "invalid status code"
           /\ err.code = calls[VerbCall(v)].resp.status
           /\ err.resource = ResName
           /\ err.method = v
           /\ SentStatus(w) = StatusInternalServerError
           /\ w.body = ErrorDocument

\* C2: when FindOne (Read) or the listing call (Index) returns without error
\* and reports a status other than 200, the request ends in an error and is not
\* answered with a success status.
C2_NonOKReadIsError ==
    \A v \in {"Read", "Index"} :
        (pc = "done" /\ verb = v /\ Len(calls) = 1 /\ calls[1].err = NoError
            /\ calls[1].resp.status # StatusOK)
        => /\ err # NoError \/ panicked
           /\ ~IsSuccess(SentStatus(w))

\* C3: when the backend call of Create, Update or Delete returns without error
\* and reports a status of the verb's accepted set, the response carries
\* exactly that status, also for a Create that reports 202 or 204 and returns
\* no object. Stated for the requests whose document the codec can marshal and
\* whose backend returns an object with the statuses that carry a document (a
\* Create reporting 201, an Update reporting 200).
C3_AcceptedStatusIsSent ==
    \A v \in WriteVerbs :
        (/\ Returned(v, v, VerbCall(v))
         /\ calls[VerbCall(v)].resp.status \in AcceptedStatuses(v)
         /\ ~request.codecFails
         /\ (calls[VerbCall(v)].resp.status \in {StatusOK, StatusCreated} /\ v # "Delete"
                => calls[VerbCall(v)].resp.result # "nil"))
        => /\ SentStatus(w) = calls[VerbCall(v)].resp.status
           /\ err = NoError
           /\ (SentStatus(w) \in {StatusAccepted, StatusNoContent} => w.body = NoBody)
           /\ (SentStatus(w) \in {StatusOK, StatusCreated} => w.body.kind \in {"document", "meta"})

\* C4: in Update, a backend Update that reports 200 with no object is followed
\* by a second FindOne with the same path id; the request fails when that
\* re-read returns an error or no object, and otherwise the response handed to
\* respondWith is the re-read one, from which the 200 document is built. A
\* backend Update that reports 200 with an object is followed by no FindOne
\* and the document is built from Update's response.
C4_UpdateRereads ==
    (Returned("Update", "Update", 2) /\ calls[2].resp.status = StatusOK)
    => IF calls[2].resp.result = "nil"
       THEN /\ Len(calls) = 3
            /\ calls[3].op = "FindOne"
            /\ calls[3].arg = request.id
            /\ calls[3].arg = calls[1].arg
            /\ IF calls[3].err # NoError \/ calls[3].resp.result = "nil"
               THEN /\ err # NoError
                    /\ responded = NilResponse
                    /\ w.body.kind # "document"
                    /\ ~IsSuccess(SentStatus(w))
               ELSE /\ responded = calls[3].resp
                    /\ (err = NoError
                        => /\ SentStatus(w) = StatusOK
                           /\ w.body = Document(calls[3].resp.result, NoLinks))
       ELSE /\ Len(calls) = 2
            /\ responded = calls[2].resp
            /\ (err = NoError
                => /\ SentStatus(w) = StatusOK
                   /\ w.body = Document(calls[2].resp.result, NoLinks))

\* an Update whose backend Update reported 200 without an object, answered 200
\* with the object of the re-read, which is not the object the first FindOne gave
C4_Witness ==
    /\ Returned("Update", "Update", 2)
    /\ calls[2].resp.status = StatusOK
    /\ calls[2].resp.result = "nil"
    /\ Len(calls) = 3
    /\ calls[3].resp.result \in Objects
    /\ calls[3].resp.result # calls[1].resp.result
    /\ SentStatus(w) = StatusOK
    /\ w.body.obj = calls[3].resp.result

\* C5: in relationship replace, add and delete, when FindOne succeeded, the
\* payload passed the checks and the backend Update returned without error, the
\* response is 204 with an empty body, whatever status Update reported.
C5_RelationEditIs204 ==
    \A v \in RelationVerbs :
        Returned(v, "Update", 2)
        => /\ calls[1].err = NoError
           /\ SentStatus(w) = StatusNoContent
           /\ w.writes = <<StatusNoContent>>
           /\ w.body = NoBody
           /\ err = NoError

\* a relationship add whose backend Update reported 418 and that was answered 204
C5_Witness ==
    /\ Returned("AddToManyRelation", "Update", 2)
    /\ calls[2].resp.status = 418
    /\ request.payload.data = "array"
    /\ Len(request.payload.entries) = MaxEntries
    /\ SentStatus(w) = StatusNoContent

\* C6: whenever a verb handler returns an error, the response status is the
\* status the error carries when it is an HTTPError and 500 otherwise, and the
\* body is the error document; also when the backend Update of a relationship
\* edit fails. Stated for the errors whose status is a valid HTTP status.
C6_ErrorStatusIsSent ==
    (pc = "done" /\ err # NoError /\ errorStatus(err) >= 100 /\ errorStatus(err) <= 999)
    => /\ SentStatus(w) = errorStatus(err)
       /\ w.body = ErrorDocument

\* C7: an HTTPError that carries no status (0) is answered with status 500, and
\* no error is answered with a status outside the valid range.
C7_NoStatusIs500 ==
    (pc = "done" /\ verb \notin RelationVerbs /\ err # NoError)
    => /\ (err.kind = "HTTPError" /\ err.status = 0 => SentStatus(w) = StatusInternalServerError)
       /\ SentStatus(w) >= 100
       /\ SentStatus(w) <= 599

\* ---------------------------------------------------------------- properties: Index

PageKeys == {"number", "size", "offset", "limit"}

PresentKeys(p) == {k \in PageKeys : p[k] # EmptyText}

\* C8: Index makes at most one backend listing call: PaginatedFindAll exactly
\* when only page[number] and page[size], or only page[offset] and page[limit],
\* are non-empty, FindAll for each of the other 14 presence combinations; when
\* the backend lacks the chosen capability the answer is 404 and no call is made.
C8_IndexListingCall ==
    (pc = "done" /\ verb = "Index")
    => LET paged == PresentKeys(request.page) \in {{"number", "size"}, {"offset", "limit"}}
           capable == IF paged THEN request.hasPaginatedFindAll ELSE request.hasFindAll
       IN  /\ Len(calls) <= 1
           /\ capable => /\ Len(calls) = 1
                         /\ calls[1].op = IF paged THEN "PaginatedFindAll" ELSE "FindAll"
           /\ ~capable => /\ calls = <<>>
                          /\ err.kind = "HTTPError"
                          /\ err.status = StatusNotFound
                          /\ SentStatus(w) = StatusNotFound
                          /\ w.body = ErrorDocument

\* an Index with page[number] and page[limit] but no page[size], served by
\* FindAll on a backend that has both listing capabilities
C8_Witness ==
    /\ pc = "done"
    /\ verb = "Index"
    /\ PresentKeys(request.page) = {"number", "limit"}
    /\ request.hasPaginatedFindAll
    /\ request.hasFindAll
    /\ Len(calls) = 1
    /\ calls[1].op = "FindAll"
    /\ SentStatus(w) = StatusOK

\* ---------------------------------------------------------------- properties: link planner

\* the links of strategy A were computed: both parameters parsed, size is not 0
PlannedNumberSize ==
    /\ lpc = "done"
    /\ lin.p.number # EmptyText
    /\ ~lout.err
    /\ ~lout.panic

\* C9: with totalPages = ceil(count/size), the links of strategy A hold first
\* (page 1) and prev (number-1) exactly when the page number is not 1, and next
\* (number+1) and last (totalPages) exactly when the page number is not
\* totalPages. Stated for the page numbers from 1 on.
C9_NumberSizeLinks ==
    (PlannedNumberSize /\ ParseUint(lin.p.number).val >= 1)
    => LET number == ParseUint(lin.p.number).val
           size == ParseUint(lin.p.size).val
           totalPages == (lin.count + size - 1) \div size
           r == lout.result
       IN  /\ r.first.present <=> number # 1
           /\ r.prev.present <=> number # 1
           /\ r.first.present => r.first.query = [lin.p EXCEPT !.number = <<"1">>]
           /\ r.prev.present => r.prev.query = [lin.p EXCEPT !.number = FormatUint(number - 1)]
           /\ r.next.present <=> number # totalPages
           /\ r.last.present <=> number # totalPages
           /\ r.next.present => r.next.query = [lin.p EXCEPT !.number = FormatUint(number + 1)]
           /\ r.last.present => r.last.query = [lin.p EXCEPT !.number = FormatUint(totalPages)]

\* the links of strategy B were computed: both parameters parsed
PlannedOffsetLimit ==
    /\ lpc = "done"
    /\ lin.p.offset # EmptyText
    /\ ~lout.err
    /\ ~lout.panic

\* C10: the links of strategy B hold first (offset 0) and prev (offset
\* max(0, offset-limit)) exactly when offset is not 0, and next (offset+limit)
\* and last (count-limit) exactly when offset+limit < count, each offset being
\* the value of that expression over the naturals.
C10_OffsetLimitLinks ==
    PlannedOffsetLimit
    => LET offset == ParseUint(lin.p.offset).val
           limit == ParseUint(lin.p.limit).val
           more == offset + limit < lin.count
           r == lout.result
       IN  /\ r.first.present <=> offset # 0
           /\ r.prev.present <=> offset # 0
           /\ r.first.present => r.first.query = [lin.p EXCEPT !.offset = <<"0">>]
           /\ r.prev.present
              => r.prev.query = [lin.p EXCEPT !.offset = FormatUint(IF offset > limit THEN offset - limit ELSE 0)]
           /\ r.next.present <=> more
           /\ r.last.present <=> more
           /\ (more /\ r.next.present) => r.next.query = [lin.p EXCEPT !.offset = FormatUint(offset + limit)]
           /\ (more /\ r.last.present) => r.last.query = [lin.p EXCEPT !.offset = FormatUint(lin.count - limit)]

\* ---------------------------------------------------------------- properties: unparseable page parameters

ListingVerbs == {"Index", "Linked"}

\* the text is not a base-10 unsigned integer
NotUnsigned(text) == \E i \in 1..Len(text) : text[i] \notin DigitChars

\* the page parameters form a valid strategy and one of the strategy's two
\* parameters is not a base-10 unsigned integer
UnparseableStrategy(p) ==
    \/ PresentKeys(p) = {"number", "size"} /\ (NotUnsigned(p.number) \/ NotUnsigned(p.size))
    \/ PresentKeys(p) = {"offset", "limit"} /\ (NotUnsigned(p.offset) \/ NotUnsigned(p.limit))

\* C11: an Index or linked-resource request whose page parameters form a valid
\* strategy with a parameter that is not a base-10 unsigned integer is not
\* answered with a success status and its body carries no pagination links;
\* when the paginated listing returned without error, the handler returns the
\* parse error and the response is the 500 error document.
C11_UnparseableParameterFails ==
    \A v \in ListingVerbs :
        (pc = "done" /\ verb = v /\ UnparseableStrategy(request.page))
        => /\ ~IsSuccess(SentStatus(w))
           /\ w.body.links = NoLinks
           /\ (Len(calls) = 1 /\ calls[1].err = NoError)
              => /\ calls[1].op = "PaginatedFindAll"
                 /\ err = errorsNew("strconv.ParseUint")
                 /\ ~panicked
                 /\ SentStatus(w) = StatusInternalServerError
                 /\ w.body = ErrorDocument

\* a linked-resource request with page[number]=2 and page[size]=x whose
\* paginated listing returned objects: the links first and prev were computed
\* before page[size] failed to parse, and the answer is the 500 error document
C11_Witness ==
    /\ pc = "done"
    /\ verb = "Linked"
    /\ request.page.number = <<"2">>
    /\ request.page.size = <<"x">>
    /\ Len(calls) = 1
    /\ calls[1].op = "PaginatedFindAll"
    /\ calls[1].err = NoError
    /\ calls[1].resp.result \in Objects
    /\ calls[1].resp.status = StatusOK
    /\ getLinks(request.page, calls[1].count).result.first.present
    /\ err = errorsNew("strconv.ParseUint")
    /\ SentStatus(w) = StatusInternalServerError

\* ---------------------------------------------------------------- properties: codec selection

\* the media range accepts the content type with a quality above 0
Accepts(spec, ct) ==
    /\ spec.q > 0
    /\ \/ spec.value = ct
       \/ spec.value.subtype = "*" /\ spec.value.type \in {"*", ct.type}

\* the registered content types the Accept header accepts
Acceptable(specs, marshalers) ==
    {ct \in DOMAIN marshalers : \E i \in 1..Len(specs) : Accepts(specs[i], ct)}

\* no registered content type is accepted with a higher quality than ct
TopQuality(specs, marshalers, ct) ==
    \A other \in DOMAIN marshalers : \A i \in 1..Len(specs) :
        Accepts(specs[i], other)
        => \E j \in 1..Len(specs) : Accepts(specs[j], ct) /\ specs[j].q >= specs[i].q

\* the marshaler is the one registered under the content type, or the built-in
\* JSON marshaler with the default content type
BoundTo(sel, marshalers) ==
    \/ sel.contentType \in DOMAIN marshalers /\ sel.marshaler = marshalers[sel.contentType]
    \/ sel.marshaler = JSONContentMarshaler /\ sel.contentType = defaultContentTypHeader

\* C12: every selection yields a marshaler, bound to the content type returned
\* with it. With an Accept header the content type is, whatever Content-Type
\* says, a registered one that the header accepts with the highest quality, or
\* the default one when it accepts none; without Accept and with Content-Type
\* it is the first value's when a marshaler is registered under exactly that
\* value; in every other case the built-in JSON marshaler is returned with the
\* default content type.
C12_SelectionPrecedence ==
    cpc = "done"
    => \A k \in 1..Len(cout) :
        LET sel == cout[k]
            r == cin.r
            marshalers == cin.marshalers
            acceptable == Acceptable(r.accept.specs, marshalers)
            first == r.contentType.values[1]
        IN  /\ sel.marshaler # "nil"
            /\ BoundTo(sel, marshalers)
            /\ r.accept.found
               => /\ acceptable = {} => sel.contentType = defaultContentTypHeader
                  /\ acceptable # {} => /\ sel.contentType \in acceptable
                                        /\ TopQuality(r.accept.specs, marshalers, sel.contentType)
                  /\ sel.contentType \notin DOMAIN marshalers => sel.marshaler = JSONContentMarshaler
            /\ (~r.accept.found /\ r.contentType.found)
               => sel = IF first \in DOMAIN marshalers THEN Selection(marshalers[first], first)
                        ELSE Selection(JSONContentMarshaler, defaultContentTypHeader)
            /\ (~r.accept.found /\ ~r.contentType.found)
               => sel = Selection(JSONContentMarshaler, defaultContentTypHeader)

\* a request whose Accept header prefers application/json and whose
\* Content-Type is text/xml, both registered: the json marshaler is selected
C12_Witness ==
    /\ cpc = "done"
    /\ cin.r.accept.found
    /\ cin.r.accept.specs = <<AcceptSpec(MediaType("*", "*", ""), 5), AcceptSpec(MediaType("application", "json", ""), 10)>>
    /\ cin.r.contentType.found
    /\ cin.r.contentType.values[1] = MediaType("text", "xml", "")
    /\ DOMAIN cin.marshalers = ContentTypes
    /\ cout[1] = Selection("json marshaler", MediaType("application", "json", ""))
    /\ cout[2] = cout[1]

\* C13: the selections made for one request, for parsing its body and for
\* serializing its success or error document, yield the same marshaler and the
\* same content type.
C13_SameSelection ==
    cpc = "done" => \A j, k \in 1..Len(cout) : cout[j] = cout[k]

\* ---------------------------------------------------------------- properties: request body

BodyVerbs == {"Create", "Update"} \cup RelationVerbs

\* C14: when a handler of a verb that carries a body returns, it has read the
\* request body to its end and closed it, on every exit path. Stated for the
\* bodies that can be read to their end.
C14_BodyDrainedAndClosed ==
    (pc = "done" /\ verb \in BodyVerbs /\ request.payload.io = "ok")
    => effects.body = "drained and closed"

\* ---------------------------------------------------------------- properties: to-many edits

EditVerbs == {"AddToManyRelation", "DeleteToManyRelation"}

EditOf(v) == IF v = "AddToManyRelation" THEN "AddToManyIDs" ELSE "DeleteToManyIDs"

\* the data member is an array whose entries are objects with a string id
WellFormedLinkage(payload) ==
    /\ payload.data = "array"
    /\ \A i \in 1..Len(payload.entries) : payload.entries[i] \in EntryIds

UpdateCalls == {k \in 1..Len(calls) : calls[k].op = "Update"}

\* C15: a to-many add or delete whose data member is not an array, or has an
\* entry that is not an object with a string id, or whose target lacks the
\* to-many-edit capability, makes no AddToManyIDs / DeleteToManyIDs call and no
\* backend Update. When FindOne returned an object with the capability and the
\* body parsed to a well-formed array, the object is edited once, with the ids
\* of the entries in payload order, after FindOne and before the one backend
\* Update that follows.
C15_ToManyEditAllOrNothing ==
    \A v \in EditVerbs :
        (pc = "done" /\ verb = v)
        => /\ (~WellFormedLinkage(request.payload) \/ ~request.editToMany)
              => /\ effects.edits = <<>>
                 /\ UpdateCalls = {}
           /\ (/\ WellFormedLinkage(request.payload)
               /\ request.editToMany
               /\ calls[1].err = NoError
               /\ calls[1].resp.result \in Objects)
              => /\ effects.edits = <<[op |-> EditOf(v), name |-> request.relation.name,
                                       ids |-> request.payload.entries, after |-> 1]>>
                 /\ Len(calls) = 2
                 /\ calls[1].op = "FindOne"
                 /\ UpdateCalls = {2}

\* a to-many delete of the ids b, a in this order, applied and stored
C15_Witness ==
    /\ pc = "done"
    /\ verb = "DeleteToManyRelation"
    /\ request.payload.entries = <<"b", "a">>
    /\ Len(effects.edits) = 1
    /\ effects.edits[1].op = "DeleteToManyIDs"
    /\ effects.edits[1].ids = <<"b", "a">>
    /\ UpdateCalls = {2}
    /\ calls[2].err = NoError
    /\ SentStatus(w) = StatusNoContent

\* ---------------------------------------------------------------- properties: linked resources

\* no registered resource has the name
Unregistered(type) == \A i \in 1..Len(resources) : resources[i].name # type

C17_LinkedListingCall ==
    (pc = "done" /\ verb = "Linked" /\ ~Unregistered(request.relation.type))
    => LET paged == PresentKeys(request.page) \in {{"number", "size"}, {"offset", "limit"}}
           capable == IF paged THEN request.hasPaginatedFindAll ELSE request.hasFindAll
           idKey == ResName \o "ID"
           nameKey == ResName \o "Name"
       IN  /\ Len(calls) <= 1
           /\ capable => /\ Len(calls) = 1
                         /\ calls[1].op = IF paged THEN "PaginatedFindAll" ELSE "FindAll"
                         /\ calls[1].arg = request.relation.type
                         /\ DOMAIN effects.query = DOMAIN request.query \cup {idKey, nameKey}
                         /\ effects.query[idKey] = <<Text(request.id)>>
                         /\ effects.query[nameKey] = <<Text(request.relation.name)>>
                         /\ \A key \in DOMAIN request.query \ {idKey, nameKey} :
                                effects.query[key] = Split(request.query[key][1])
           /\ ~capable => /\ calls = <<>>
                          /\ err.kind = "HTTPError"
                          /\ err.status = StatusNotFound
                          /\ SentStatus(w) = StatusNotFound
                          /\ w.body = ErrorDocument

\* the comments of post 1 listed with a client query that has postsID=9,
\* postsName=9 and q=9: the listing is asked with postsID=1, postsName=comments
\* and q=9
C17_Witness ==
    /\ pc = "done"
    /\ verb = "Linked"
    /\ request.id = "1"
    /\ request.relation = Reference("comments", "comments")
    /\ DOMAIN request.query = {"postsID", "postsName", "q"}
    /\ request.query["postsID"] = <<<<"9">>, <<"8">>>>
    /\ Len(calls) = 1
    /\ calls[1].op = "FindAll"
    /\ calls[1].arg = "comments"
    /\ effects.query["postsID"] = <<<<"1">>>>
    /\ effects.query["postsName"] = <<<<"comments">>>>
    /\ effects.query["q"] = <<<<"9">>>>
    /\ SentStatus(w) = StatusOK

\* ---------------------------------------------------------------- properties: payload validation

\* the handler of v got a parsed payload: its FindOne returned without error,
\* the body was read and the codec unmarshalled it
ParsedPayload(v) ==
    /\ pc = "done"
    /\ verb = v
    /\ calls[1].err = NoError
    /\ request.payload.io = "ok"
    /\ request.payload.syntax = "ok"

\* C18: an Update whose parsed payload has no data member, or a data member
\* that is no object, or a data object without id or without type, is answered
\* with the 403 error document; the backend Update is not called and the
\* handler hands no object to the backend and edits none.
C18_InvalidUpdateIs403 ==
    (/\ ParsedPayload("Update")
     /\ \/ request.payload.data # "object"
        \/ ~request.payload.hasId
        \/ ~request.payload.hasType)
    => /\ err.kind = "HTTPError"
       /\ err.status = StatusForbidden
       /\ ~panicked
       /\ w.writes = <<StatusForbidden>>
       /\ w.body = ErrorDocument
       /\ Len(calls) = 1
       /\ UpdateCalls = {}
       /\ effects.passed = <<>>
       /\ effects.edits = <<>>

\* an Update with a data object that has an id and no type, rejected with 403
C18_Witness ==
    /\ ParsedPayload("Update")
    /\ calls[1].resp.result \in Objects
    /\ request.payload.data = "object"
    /\ request.payload.hasId
    /\ ~request.payload.hasType
    /\ SentStatus(w) = StatusForbidden
    /\ UpdateCalls = {}

\* the payload fails the validation of the relationship handler of v: it has no
\* data member, or, for add and delete, its data member is not an array of
\* objects with a string id
InvalidLinkage(v, payload) ==
    IF v = "ReplaceRelation" THEN payload.data = "absent" ELSE ~WellFormedLinkage(payload)

\* C19: a relationship replace, add or delete whose parsed payload fails the
\* validation is answered with a 4xx status.
C19_InvalidLinkageIs4xx ==
    \A v \in RelationVerbs :
        (ParsedPayload(v) /\ InvalidLinkage(v, request.payload))
        => SentStatus(w) >= 400 /\ SentStatus(w) <= 499

\* ---------------------------------------------------------------- properties: merge on update

\* C20: when Update calls the backend Update, it is its second call, after the
\* FindOne for the path id, and it hands over one object: the one FindOne
\* returned with the fields the payload carries set from the payload and every
\* other field as FindOne returned it.
C20_UpdateMerges ==
    (pc = "done" /\ verb = "Update" /\ UpdateCalls # {})
    => /\ UpdateCalls = {2}
       /\ calls[1].op = "FindOne"
       /\ calls[1].arg = request.id
       /\ calls[1].err = NoError
       /\ Len(effects.passed) = 1
       /\ \A f \in Fields :
              effects.passed[1][f] = IF f \in request.payload.attrs THEN "payload"
                                     ELSE calls[1].resp.result

\* an Update of object o2 with a payload that carries title and omits author:
\* the backend Update gets title from the payload and author as stored
C20_Witness ==
    /\ pc = "done"
    /\ verb = "Update"
    /\ calls[1].resp.result = "o2"
    /\ request.payload.attrs = {"title"}
    /\ UpdateCalls = {2}
    /\ calls[2].err = NoError
    /\ effects.passed = <<[title |-> "payload", author |-> "o2"]>>

\* ---------------------------------------------------------------- properties: Location

\* C21: the response of a Create carries a Location header exactly when the
\* Create succeeded: a header is set only after the backend Create returned
\* without error with status 201, 202 or 204 and is then the prefix, the
\* resource name, "/" and the id of the object returned; a Create answered
\* with a success status carries one, and a Create that ends in an error
\* carries none.
C21_LocationIffCreated ==
    (pc = "done" /\ verb = "Create")
    => /\ w.location # ""
          => /\ Len(calls) = 1
             /\ calls[1].err = NoError
             /\ calls[1].resp.status \in AcceptedStatuses("Create")
             /\ calls[1].resp.result \in Objects
             /\ w.location = "/v1/posts/" \o (IF calls[1].resp.result = "o1" THEN "1" ELSE "2")
       /\ (err = NoError /\ ~panicked /\ IsSuccess(SentStatus(w))) => w.location # ""
       /\ err # NoError => w.location = ""

\* ---------------------------------------------------------------- properties: shared state

C23_GroupedByName ==
    mpc = "done"
    => LET rel == marshaled.relationships
           nodes(ids) == [i \in 1..Len(ids) |-> [type |-> "nodes", id |-> ids[i]]]
       IN  /\ DOMAIN rel = {"mother-node", "child-nodes", "abandoned-child-nodes"}
           /\ ~rel["mother-node"].many
           /\ rel["mother-node"].data = IF node.MotherID = "" THEN <<>> ELSE nodes(<<node.MotherID>>)
           /\ rel["child-nodes"].many
           /\ rel["child-nodes"].data = nodes(node.ChildIDs)
           /\ rel["abandoned-child-nodes"].many
           /\ rel["abandoned-child-nodes"].data = nodes(node.AbandonedChildIDs)

\* a Node with a mother, two children and two abandoned children, one id
\* shared by all three relationships, is marshaled
C23_Witness ==
    /\ mpc = "done"
    /\ node.MotherID = "42"
    /\ node.ChildIDs = <<"2", "42">>
    /\ node.AbandonedChildIDs = <<"42", "1">>
    /\ marshaled.relationships["mother-node"].data = <<[type |-> "nodes", id |-> "42"]>>
    /\ marshaled.relationships["child-nodes"].data = <<[type |-> "nodes", id |-> "2"], [type |-> "nodes", id |-> "42"]>>
    /\ marshaled.relationships["abandoned-child-nodes"].data = <<[type |-> "nodes", id |-> "42"], [type |-> "nodes", id |-> "1"]>>

\* C24: every served request, by a verb route or by the method-not-allowed
\* handler, has its response status written exactly once: no status is
\* written after one was sent, and no request ends without a status.
C24_StatusWrittenOnce ==
    pc = "done" => Len(w.writes) = 1

\* the page numbers of the links getLinks returned
LinkedPageNumbers ==
    {ParseUint(lout.result[rel].query.number).val :
        rel \in {rel \in {"first", "prev", "next", "last"} : lout.result[rel].present}}

\* C25: in strategy A, for a count and a page[number] and page[size] that
\* parse as unsigned integers with size >= 1, every page number in a first,
\* prev, next or last link lies between 1 and totalPages = ceil(count/size):
\* prev does not wrap around below zero and next does not point beyond last.
C25_PageNumbersInRange ==
    (PlannedNumberSize /\ ParseUint(lin.p.size).val >= 1)
    => LET size == ParseUint(lin.p.size).val
           totalPages == (lin.count + size - 1) \div size
       IN  \A page \in LinkedPageNumbers : 1 <= page /\ page <= totalPages

\* C26: link computation returns a link set or an error for every pair of
\* pagination parameters of a valid strategy, page[size]=0 and page[limit]=0
\* included, and never aborts the handler: an Index request whose paginated
\* listing call succeeded ends in a written response.
C26_LinksNeverAbort ==
    (pc = "done" /\ verb = "Index" /\ isValid(request.page) /\ Len(calls) = 1 /\ calls[1].err = NoError)
    => /\ ~getLinks(request.page, calls[1].count).panic
       /\ ~panicked
       /\ Len(w.writes) >= 1

====
